---- MODULE Spec2Model ----
(***************************************************************************)
(* A model of the ElastiCache facade (src/Elasticache.js): the Redis       *)
(* keyspace the client handle talks to, the JSON codec, the eighteen       *)
(* public operations with their error classification, and the fan-out of  *)
(* the composite operations (getByPrefix, getAll, deleteAll).              *)
(***************************************************************************)
EXTENDS Integers, Sequences, FiniteSets, TLC

\* ------------------------------------------------------------------ bounds
MaxListLen == 2
MaxTtl == 2
\* The longest list of the list-only specification (SpecLists).
MaxLongList == 3

\* -------------------------------------------------------------- characters
\* A JavaScript string is a sequence of UTF-16 code units, and so is every
\* text the store holds.  Utf16 gives the code units of a literal written in
\* this module.
CodeUnit ==
    LET Ascii == " !\"#$%&'()*+,-./0123456789:;<=>?@ABCDEFGHIJKLMNOPQRSTUVWXYZ[\\]^_"
        AsciiLower == "abcdefghijklmnopqrstuvwxyz{|}~"
    IN  [c \in {SubSeq(Ascii, i, i) : i \in 1..Len(Ascii)} |->
            31 + (CHOOSE i \in 1..Len(Ascii) : SubSeq(Ascii, i, i) = c)]
        @@ [c \in {SubSeq(AsciiLower, i, i) : i \in 1..Len(AsciiLower)} |->
            96 + (CHOOSE i \in 1..Len(AsciiLower) : SubSeq(AsciiLower, i, i) = c)]
            @@ [c \in {"\t", "\n", "\f", "\r"} |->
            CASE c = "\t" -> 9 [] c = "\n" -> 10 [] c = "\f" -> 12 [] OTHER -> 13]
Utf16(s) == [i \in 1..Len(s) |-> CodeUnit[SubSeq(s, i, i)]]

Quote == 34
Backslash == 92
Zero == 48
Digits == 48..57
\* The code units of the two halves of a surrogate pair.
Surrogates == [high |-> 55296..56319, low |-> 56320..57343]

\* The text s without its first n code units.
After(s, n) == SubSeq(s, n + 1, Len(s))

StartsWith(s, p) == Len(s) >= Len(p) /\ SubSeq(s, 1, Len(p)) = p

\* ------------------------------------------------------------------ values
\* JavaScript values, tagged by their type.  A string carries its code units,
\* a number the text String(n) gives for it, an object its properties as
\* <<name, value>> pairs in the order JavaScript lists them in.
JsString(s) == [t |-> "string", v |-> s]
JsBoolean(b) == [t |-> "boolean", v |-> IF b THEN "true" ELSE "false"]
JsNull == [t |-> "null", v |-> "null"]
Undefined == [t |-> "undefined", v |-> "undefined"]
JsArray(s) == [t |-> "array", v |-> s]

\* The decimal text of a natural number.
RECURSIVE IntText(_)
IntText(n) == IF n < 10 THEN <<Zero + n>> ELSE Append(IntText(n \div 10), Zero + (n % 10))

\* A double is m x 2^e with m below 2^53 and e from -1074 to 971; m is at
\* least 2^52 unless e is -1074.  It holds 15 significant digits unchanged
\* from 10^-307 to 10^308; a number below 10^-324 rounds to zero, one from
\* 10^309 up to Infinity.  An exponent from cap up takes a number out of the
\* range of the doubles wherever the point of its digits is: a string has
\* fewer than 2^30 code units, so the digits move the point by less than that.
Double ==
    [two52 |-> Utf16("4503599627370496"), two53 |-> Utf16("9007199254740992"),
     wholeDigits |-> 16, maxShift |-> 1074, minShift |-> -971,
     digits |-> 15, minExact |-> -306, maxExact |-> 308, minPoint |-> -323, maxPoint |-> 309,
     cap |-> 2000000000]

\* The natural number a run of digits stands for, Double.cap for every number
\* from Double.cap up.
RECURSIVE IntValue(_, _)
IntValue(ds, acc) ==
    IF ds = <<>> THEN acc
    ELSE IF acc >= Double.cap \div 10 THEN Double.cap
    ELSE IntValue(Tail(ds), 10 * acc + ds[1] - Zero)

\* The digits without the zeros they start with.
StripLeft(ds) ==
    IF \A i \in 1..Len(ds) : ds[i] = Zero THEN <<>>
    ELSE After(ds, (CHOOSE i \in 1..Len(ds) : ds[i] # Zero /\ \A j \in 1..(i - 1) : ds[j] = Zero) - 1)

\* The digits without the zeros they end with.
StripRight(ds) ==
    IF \A i \in 1..Len(ds) : ds[i] = Zero THEN <<>>
    ELSE SubSeq(ds, 1, CHOOSE i \in 1..Len(ds) : ds[i] # Zero /\ \A j \in (i + 1)..Len(ds) : ds[j] = Zero)

Zeros(n) == [i \in 1..n |-> Zero]

\* Whether the digits a are below the digits b of the same length.
RECURSIVE DigitsBelow(_, _)
DigitsBelow(a, b) ==
    IF a = <<>> \/ b = <<>> THEN FALSE
    ELSE IF a[1] # b[1] THEN a[1] < b[1]
    ELSE DigitsBelow(Tail(a), Tail(b))

\* Whether the number a, 0.d1...dk x 10^point in decimal, is at least the
\* number b.
NotBelow(a, b) ==
    \/ a.point > b.point
    \/ /\ a.point = b.point
       /\ ~DigitsBelow(a.digits \o Zeros(Len(b.digits) - Len(a.digits)),
                       b.digits \o Zeros(Len(a.digits) - Len(b.digits)))

\* A positive number in decimal is 0.d1...dk x 10^point, its digits without
\* zeros at either end; shift counts the times it was doubled.
\* Twice the number: a digit of the result is twice the digit without its
\* ten, and the carry of the digit after it, which is 1 from 5 up.
Twice(x) ==
    [digits |-> SubSeq([i \in 1..Len(x.digits) + 1 |->
                          Zero + (IF i = 1 THEN 0 ELSE (2 * (x.digits[i - 1] - Zero)) % 10)
                               + (IF i <= Len(x.digits) /\ x.digits[i] >= Zero + 5 THEN 1 ELSE 0)],
                       IF x.digits[1] >= Zero + 5 THEN 1 ELSE 2,
                       IF x.digits[Len(x.digits)] = Zero + 5 THEN Len(x.digits) ELSE Len(x.digits) + 1),
     point |-> IF x.digits[1] >= Zero + 5 THEN x.point + 1 ELSE x.point,
     shift |-> x.shift + 1]

\* Half the number: a digit of the result is half the digit, and 5 for an odd
\* digit before it.
Half(x) ==
    [digits |-> SubSeq([i \in 1..Len(x.digits) + 1 |->
                          Zero + (IF i <= Len(x.digits) THEN (x.digits[i] - Zero) \div 2 ELSE 0)
                               + (IF i > 1 /\ x.digits[i - 1] % 2 = 1 THEN 5 ELSE 0)],
                       IF x.digits[1] = Zero + 1 THEN 2 ELSE 1,
                       IF x.digits[Len(x.digits)] % 2 = 1 THEN Len(x.digits) + 1 ELSE Len(x.digits)),
     point |-> IF x.digits[1] = Zero + 1 THEN x.point - 1 ELSE x.point,
     shift |-> x.shift - 1]

\* The number doubled, or halved, until its shift is s.
RECURSIVE Shifted(_, _)
Shifted(x, s) ==
    IF x.shift = s THEN x
    ELSE IF x.shift = s - 1 THEN Twice(x)
    ELSE IF x.shift = s + 1 THEN Half(x)
    ELSE Shifted(Shifted(x, x.shift + (s - x.shift) \div 2), s)

\* The number doubled or halved until it is in [2^52, 2^53), or below 2^52
\* after 1074 doublings.
RECURSIVE Fitted(_)
Fitted(x) ==
    IF NotBelow(x, [digits |-> Double.two53, point |-> Double.wholeDigits])
    THEN Fitted(Half(x))
    ELSE IF x.shift < Double.maxShift /\ ~NotBelow(x, [digits |-> Double.two52, point |-> Double.wholeDigits])
    THEN Fitted(Twice(x))
    ELSE x

\* The digits of a natural number one step (1 or -1) further, as many digits
\* as it has unless a step up takes one more.
RECURSIVE Stepped(_, _)
Stepped(ds, step) ==
    IF ds = <<>> THEN <<Zero + 1>>
    ELSE IF ds[Len(ds)] + step \in Digits THEN [ds EXCEPT ![Len(ds)] = @ + step]
    ELSE Append(Stepped(SubSeq(ds, 1, Len(ds) - 1), step), IF step > 0 THEN Zero ELSE Zero + 9)

\* The whole number nearest to x, the even one of two that are as near, with
\* the shift of x: 2^53 is 2^52 with one doubling less.
Nearest(x) ==
    LET whole == IF x.point <= 0 THEN <<>>
                 ELSE IF x.point >= Len(x.digits) THEN x.digits \o Zeros(x.point - Len(x.digits))
                 ELSE SubSeq(x.digits, 1, x.point)
        up == /\ x.point >= 0
              /\ x.point < Len(x.digits)
              /\ \/ x.digits[x.point + 1] > Zero + 5
                 \/ /\ x.digits[x.point + 1] = Zero + 5
                    /\ Len(x.digits) > x.point + 1 \/ (x.point > 0 /\ x.digits[x.point] % 2 = 1)
        m == IF up THEN Stepped(whole, 1) ELSE whole
    IN  IF m = Double.two53 THEN [m |-> Double.two52, shift |-> x.shift - 1]
        ELSE [m |-> m, shift |-> x.shift]

\* The double nearest to a number in decimal, m x 2^-shift: the number is
\* doubled about as often as its point says (log2 10 is 3.321928...), fitted,
\* and rounded to a whole number.
Rounded(x) ==
    Nearest(Fitted(Shifted([digits |-> x.digits, point |-> x.point, shift |-> 0],
                           IF 53 + ((-x.point * 3321928) \div 1000000) > Double.maxShift
                           THEN Double.maxShift
                           ELSE 53 + ((-x.point * 3321928) \div 1000000))))


\* The numbers that round to the double r = m x 2^-shift, whose value is v:
\* those between low, half a step below it (a quarter where the step below
\* is half as wide, at m = 2^52), and high, half a step above it, and the
\* two ends where m is even.
Bounds(r) ==
    LET below == Stepped(r.m, -1) \o (IF r.m = Double.two52 /\ r.shift < Double.maxShift
                                      THEN <<Zero + 7, Zero + 5>> ELSE <<Zero + 5>>)
    IN  [v |-> Shifted([digits |-> StripRight(r.m), point |-> Len(r.m), shift |-> 0], -r.shift),
         low |-> Shifted([digits |-> StripLeft(below),
                          point |-> Len(r.m) - (Len(below) - Len(StripLeft(below))),
                          shift |-> 0], -r.shift),
         high |-> Shifted([digits |-> Append(r.m, Zero + 5), point |-> Len(r.m), shift |-> 0], -r.shift),
         closed |-> r.m[Len(r.m)] % 2 = 0]

Within(x, b) ==
    IF b.closed THEN NotBelow(x, b.low) /\ NotBelow(b.high, x)
    ELSE ~NotBelow(b.low, x) /\ ~NotBelow(x, b.high)

\* The fewest digits, k or more, that stand for the double of the bounds b: of
\* two numbers of as many digits the one nearer to the double, the even one of
\* two that are as near.
RECURSIVE Shortest(_, _)
Shortest(b, k) ==
    IF Len(b.v.digits) <= k THEN b.v
    ELSE LET below == [digits |-> StripRight(SubSeq(b.v.digits, 1, k)), point |-> b.v.point]
             above == [digits |-> StripRight(Stepped(SubSeq(b.v.digits, 1, k), 1)),
                       point |-> b.v.point + Len(Stepped(SubSeq(b.v.digits, 1, k), 1)) - k]
             up == \/ b.v.digits[k + 1] > Zero + 5
                   \/ /\ b.v.digits[k + 1] = Zero + 5
                      /\ Len(b.v.digits) > k + 1 \/ b.v.digits[k] % 2 = 1
         IN  IF Within(below, b) /\ (~up \/ ~Within(above, b)) THEN below
             ELSE IF Within(above, b) THEN above
             ELSE Shortest(b, k + 1)

\* Number::toString of 0.d1...dk x 10^n, the digits without zeros at either end.
NumberToString(x) ==
    LET k == Len(x.digits)
        digits == x.digits
        n == x.point
    IN  IF k <= n /\ n <= 21 THEN digits \o Zeros(n - k)
        ELSE IF 0 < n /\ n <= 21
        THEN SubSeq(digits, 1, n) \o Utf16(".") \o SubSeq(digits, n + 1, k)
        ELSE IF -6 < n /\ n <= 0 THEN Utf16("0.") \o Zeros(-n) \o digits
        ELSE (IF k = 1 THEN digits ELSE <<digits[1]>> \o Utf16(".") \o Tail(digits))
             \o Utf16(IF n - 1 >= 0 THEN "e+" ELSE "e-")
             \o IntText(IF n - 1 >= 0 THEN n - 1 ELSE 1 - n)

\* Number::toString of the double r: the fewest digits that stand for it.
DoubleToString(r) ==
    IF r.m = <<>> THEN <<Zero>>
    ELSE IF r.shift < Double.minShift THEN Utf16("Infinity")
    ELSE NumberToString(Shortest(Bounds(r), 1))

\* The number 0.d1...dk x 10^n with its sign, as a double holds it: the
\* number as written where a double holds its digits unchanged, else the
\* double nearest to it.
Number(negative, digits, n) ==
    [t |-> "number",
     v |-> (IF negative THEN <<45>> ELSE <<>>)
           \o (IF digits = <<>> \/ n < Double.minPoint THEN <<Zero>>
               ELSE IF n > Double.maxPoint THEN Utf16("Infinity")
               ELSE IF Len(digits) <= Double.digits /\ n >= Double.minExact /\ n <= Double.maxExact
               THEN NumberToString([digits |-> digits, point |-> n])
               ELSE DoubleToString(Rounded([digits |-> digits, point |-> n])))]

\* ------------------------------------------------------------------ objects
\* An array index: a canonical numeric name up to 2^32 - 2.
IsArrayIndex(name) ==
    /\ name # <<>>
    /\ \A i \in 1..Len(name) : name[i] \in Digits
    /\ Len(name) = 1 \/ name[1] # Zero
    /\ \/ Len(name) < 10
       \/ Len(name) = 10 /\ DigitsBelow(name, Utf16("4294967295"))

\* Whether a new property called name is listed before the member m: array
\* indices come first, in ascending order; every other name comes after them
\* in the order of creation.
ListedBefore(name, m) ==
    IsArrayIndex(name) /\ (\/ ~IsArrayIndex(m[1])
                            \/ Len(name) < Len(m[1])
                            \/ (Len(name) = Len(m[1]) /\ DigitsBelow(name, m[1])))

\* The value filed under a name in a sequence of <<name, value>> pairs.
Lookup(members, name, none) ==
    IF \E i \in 1..Len(members) : members[i][1] = name
    THEN members[CHOOSE i \in 1..Len(members) : members[i][1] = name][2]
    ELSE none

\* object[name] = value: a property there already keeps its place and takes
\* the value, a new one goes where JavaScript lists it.
Put(members, name, value) ==
    IF \E i \in 1..Len(members) : members[i][1] = name
    THEN [i \in 1..Len(members) |->
            IF members[i][1] = name THEN <<name, value>> ELSE members[i]]
    ELSE LET before == Cardinality({i \in 1..Len(members) : ~ListedBefore(name, members[i])})
         IN  SubSeq(members, 1, before) \o << <<name, value>> >>
                \o SubSeq(members, before + 1, Len(members))

\* The object whose properties were created in the order of the pairs p.
RECURSIVE Created(_, _)
Created(p, members) ==
    IF p = <<>> THEN members
    ELSE Created(Tail(p), Put(members, p[1][1], p[1][2]))

JsObject(p) == [t |-> "object", v |-> Created(p, <<>>)]

\* ------------------------------------------------------------------- codec
\* The texts of the literals.
Literal ==
    [null |-> Utf16("null"), true |-> Utf16("true"), false |-> Utf16("false"),
     hex |-> Utf16("0123456789abcdef")]

\* One code unit as JSON.stringify writes it between quotes.
EscapedUnit(c) ==
    CASE c = Quote -> Utf16("\\\"")
      [] c = Backslash -> Utf16("\\\\")
      [] c = 8 -> Utf16("\\b")
      [] c = 12 -> Utf16("\\f")
      [] c = 10 -> Utf16("\\n")
      [] c = 13 -> Utf16("\\r")
      [] c = 9 -> Utf16("\\t")
      [] c < 32 \/ c \in Surrogates.high \/ c \in Surrogates.low ->
            Utf16("\\u") \o <<Literal.hex[((c \div 4096) % 16) + 1], Literal.hex[((c \div 256) % 16) + 1],
                              Literal.hex[((c \div 16) % 16) + 1], Literal.hex[(c % 16) + 1]>>
      [] OTHER -> <<c>>

\* The code units of a string as JSON.stringify writes them between quotes:
\* a surrogate pair is written as it is, a lone surrogate escaped, and a string
\* of code units that need no escape is its own text.
RECURSIVE Escaped(_)
Escaped(s) ==
    IF \A i \in 1..Len(s) : s[i] >= 32 /\ s[i] \notin {Quote, Backslash} /\ s[i] \notin 55296..57343
    THEN s
    ELSE IF Len(s) > 1 /\ s[1] \in Surrogates.high /\ s[2] \in Surrogates.low
    THEN <<s[1], s[2]>> \o Escaped(After(s, 2))
    ELSE EscapedUnit(s[1]) \o Escaped(After(s, 1))

\* The texts of a sequence with commas between them.
RECURSIVE CommaJoined(_)
CommaJoined(texts) ==
    IF Len(texts) = 0 THEN <<>>
    ELSE IF Len(texts) = 1 THEN texts[1]
    ELSE texts[1] \o Utf16(",") \o CommaJoined(Tail(texts))

\* What JSON.stringify gives when it throws.
TypeError == [t |-> "TypeError", v |-> "TypeError"]

\* The text of a number: null for one that is not finite (NaN, Infinity and
\* -Infinity are the numbers String(n) does not end with a digit for), 0 for
\* negative zero.
NumberText(v) ==
    IF v[Len(v)] \notin Digits THEN Literal.null
    ELSE IF v = <<45, Zero>> THEN <<Zero>>
    ELSE v

\* An array of the texts of its elements, null for one that has no text.
ArrayText(texts) ==
    IF \E i \in 1..Len(texts) : texts[i].t = "TypeError" THEN TypeError
    ELSE JsString(Utf16("[")
            \o CommaJoined([i \in 1..Len(texts) |->
                              IF texts[i].t = "string" THEN texts[i].v ELSE Literal.null])
            \o Utf16("]"))

\* An object of the texts of its properties, without those that have no text.
ObjectText(members, texts) ==
    IF \E i \in 1..Len(texts) : texts[i].t = "TypeError" THEN TypeError
    ELSE LET kept == SelectSeq([i \in 1..Len(texts) |-> i], LAMBDA i : texts[i].t = "string")
         IN  JsString(Utf16("{")
                \o CommaJoined([j \in 1..Len(kept) |->
                                  <<Quote>> \o Escaped(members[kept[j]][1]) \o <<Quote>> \o Utf16(":") \o texts[kept[j]].v])
                \o Utf16("}"))

RECURSIVE JSONstringify(_)

\* An encoder that stores a string as it is, unquoted.
StringifyUnquoted(value) ==
    CASE value.t = "string" -> JsString(value.v)
      [] value.t = "number" -> JsString(NumberText(value.v))
      [] value.t \in {"null", "boolean"} -> JsString(Literal[value.v])
      [] value.t = "bigint" -> TypeError
      [] OTHER -> Undefined

\* JSON.stringify: the text as a string, undefined for a value that has no
\* text, or the TypeError thrown for a BigInt.
JSONstringify(value) ==
    CASE value.t = "string" -> JsString(<<Quote>> \o Escaped(value.v) \o <<Quote>>)
      [] value.t = "number" -> JsString(NumberText(value.v))
      [] value.t \in {"null", "boolean"} -> JsString(Literal[value.v])
      [] value.t = "array" ->
            ArrayText([i \in 1..Len(value.v) |-> JSONstringify(value.v[i])])
      [] value.t = "object" ->
            ObjectText(value.v, [i \in 1..Len(value.v) |-> JSONstringify(value.v[i][2])])
      [] value.t = "bigint" -> TypeError
      [] OTHER -> Undefined

\* JSON.parse, as a recursive descent over the text.  Each step gives ok (FALSE
\* stands for the SyntaxError), the value read and the text left after it.
Fail == [ok |-> FALSE, value |-> Undefined, rest |-> <<>>]
Read(value, rest) == [ok |-> TRUE, value |-> value, rest |-> rest]

RECURSIVE SkipWs(_)
\* JSON's white space: space, tab, line feed, carriage return.
SkipWs(s) == IF s # <<>> /\ s[1] \in {32, 9, 10, 13} THEN SkipWs(After(s, 1)) ELSE s

HexValue(c) ==
    IF c \in Digits THEN c - Zero
    ELSE IF c \in 65..70 THEN c - 55
    ELSE IF c \in 97..102 THEN c - 87
    ELSE -1

\* The code unit a one-letter escape stands for, -1 for a letter that is none.
Unescaped(c) ==
    CASE c \in {Quote, Backslash, 47} -> c
      [] c = 98 -> 8
      [] c = 102 -> 12
      [] c = 110 -> 10
      [] c = 114 -> 13
      [] c = 116 -> 9
      [] OTHER -> -1

\* The code units of a string literal up to its closing quote.
RECURSIVE ScanString(_, _)
ScanString(s, acc) ==
    IF s = <<>> THEN Fail
    ELSE IF s[1] = Quote THEN Read(acc, After(s, 1))
    ELSE IF s[1] < 32 THEN Fail
    ELSE IF s[1] # Backslash THEN ScanString(After(s, 1), Append(acc, s[1]))
    ELSE IF Len(s) < 2 THEN Fail
    ELSE IF s[2] = 117
    THEN IF Len(s) >= 6 /\ \A i \in 3..6 : HexValue(s[i]) >= 0
         THEN ScanString(After(s, 6),
                         Append(acc, 4096 * HexValue(s[3]) + 256 * HexValue(s[4])
                                       + 16 * HexValue(s[5]) + HexValue(s[6])))
         ELSE Fail
    ELSE IF Unescaped(s[2]) >= 0 THEN ScanString(After(s, 2), Append(acc, Unescaped(s[2])))
    ELSE Fail

\* The digits a text starts with, and the text after them.
TakeDigits(s) ==
    LET n == IF \A i \in 1..Len(s) : s[i] \in Digits THEN Len(s)
             ELSE (CHOOSE i \in 1..Len(s) : s[i] \notin Digits /\ \A j \in 1..(i - 1) : s[j] \in Digits) - 1
    IN  [text |-> SubSeq(s, 1, n), rest |-> After(s, n)]

\* -?(0|[1-9][0-9]*)(.[0-9]+)?([eE][+-]?[0-9]+)?
\* The fraction a text starts with: the digits after a point, none without a
\* point; a point without digits is not one.
FractionRead(s) ==
    IF s # <<>> /\ s[1] = 46
    THEN [ok |-> TakeDigits(After(s, 1)).text # <<>>,
          text |-> TakeDigits(After(s, 1)).text, rest |-> TakeDigits(After(s, 1)).rest]
    ELSE [ok |-> TRUE, text |-> <<>>, rest |-> s]

\* The exponent a text starts with, 0 without one; an e without digits is not
\* one.
Exponent(s) ==
    IF s # <<>> /\ s[1] \in {101, 69}
    THEN [ok |-> TakeDigits(After(s, IF Len(s) > 1 /\ s[2] \in {43, 45} THEN 2 ELSE 1)).text # <<>>,
          value |-> IntValue(StripLeft(TakeDigits(After(s, IF Len(s) > 1 /\ s[2] \in {43, 45} THEN 2 ELSE 1)).text), 0)
                        * (IF Len(s) > 1 /\ s[2] = 45 THEN -1 ELSE 1),
          rest |-> TakeDigits(After(s, IF Len(s) > 1 /\ s[2] \in {43, 45} THEN 2 ELSE 1)).rest]
    ELSE [ok |-> TRUE, value |-> 0, rest |-> s]

\* The number read is the digits of the integer part and of the fraction, the
\* point moved by the exponent.  An integer part of no digits, or of a zero and
\* more digits, is not a number.
NumberRead(negative, int, frac, exp) ==
    IF int = <<>> \/ (Len(int) > 1 /\ int[1] = Zero) \/ ~frac.ok \/ ~exp.ok THEN Fail
    ELSE Read(Number(negative, StripRight(StripLeft(int \o frac.text)),
                     Len(int) - (Len(int \o frac.text) - Len(StripLeft(int \o frac.text))) + exp.value),
              exp.rest)

ParseNumber(s) ==
    NumberRead(s # <<>> /\ s[1] = 45,
               TakeDigits(IF s # <<>> /\ s[1] = 45 THEN After(s, 1) ELSE s).text,
               FractionRead(TakeDigits(IF s # <<>> /\ s[1] = 45 THEN After(s, 1) ELSE s).rest),
               Exponent(FractionRead(TakeDigits(IF s # <<>> /\ s[1] = 45 THEN After(s, 1) ELSE s).rest).rest))

\* An integer of this module as a number: it is a double as it is, and
\* Number::toString gives its digits.
JsInteger(i) ==
    [t |-> "number", v |-> IF i < 0 THEN <<45>> \o IntText(-i) ELSE IntText(i)]

\* The number a numeric literal of this module stands for.
JsNumber(n) ==
    IF n \in {"NaN", "Infinity", "-Infinity"} THEN [t |-> "number", v |-> Utf16(n)]
    ELSE ParseNumber(Utf16(n)).value

StringRead(r) == IF r.ok THEN Read(JsString(r.value), r.rest) ELSE Fail

\* The first code unit of a text, -1 at its end.
First(s) == IF s = <<>> THEN -1 ELSE s[1]

Mark ==
    [leftBracket |-> 91, rightBracket |-> 93, leftBrace |-> 123, rightBrace |-> 125,
     comma |-> 44, colon |-> 58]

RECURSIVE ParseValue(_)
RECURSIVE ParseElements(_, _)
RECURSIVE ParseMembers(_, _)

\* After a value of an array: a comma and the next one, or the closing bracket.
ElementRead(v, acc) ==
    IF ~v.ok THEN Fail
    ELSE IF First(SkipWs(v.rest)) = Mark.comma
    THEN ParseElements(SkipWs(After(SkipWs(v.rest), 1)), Append(acc, v.value))
    ELSE IF First(SkipWs(v.rest)) = Mark.rightBracket
    THEN Read(JsArray(Append(acc, v.value)), After(SkipWs(v.rest), 1))
    ELSE Fail

\* After a property of an object: a comma and the next one, or the closing brace.
MemberRead(name, v, acc) ==
    IF ~v.ok THEN Fail
    ELSE IF First(SkipWs(v.rest)) = Mark.comma
    THEN ParseMembers(SkipWs(After(SkipWs(v.rest), 1)), Append(acc, <<name, v.value>>))
    ELSE IF First(SkipWs(v.rest)) = Mark.rightBrace
    THEN Read(JsObject(Append(acc, <<name, v.value>>)), After(SkipWs(v.rest), 1))
    ELSE Fail

\* After the name of a property: a colon and its value.
NameRead(k, acc) ==
    IF ~k.ok \/ First(SkipWs(k.rest)) # Mark.colon THEN Fail
    ELSE MemberRead(k.value, ParseValue(SkipWs(After(SkipWs(k.rest), 1))), acc)

ParseValue(s) ==
    CASE StartsWith(s, Literal.null) -> Read(JsNull, After(s, 4))
      [] StartsWith(s, Literal.true) -> Read(JsBoolean(TRUE), After(s, 4))
      [] StartsWith(s, Literal.false) -> Read(JsBoolean(FALSE), After(s, 5))
      [] First(s) = Quote -> StringRead(ScanString(After(s, 1), <<>>))
      [] First(s) = Mark.leftBracket ->
            IF First(SkipWs(After(s, 1))) = Mark.rightBracket
            THEN Read(JsArray(<<>>), After(SkipWs(After(s, 1)), 1))
            ELSE ParseElements(SkipWs(After(s, 1)), <<>>)
      [] First(s) = Mark.leftBrace ->
            IF First(SkipWs(After(s, 1))) = Mark.rightBrace
            THEN Read(JsObject(<<>>), After(SkipWs(After(s, 1)), 1))
            ELSE ParseMembers(SkipWs(After(s, 1)), <<>>)
      [] OTHER -> ParseNumber(s)

ParseElements(s, acc) == ElementRead(ParseValue(s), acc)

ParseMembers(s, acc) ==
    IF First(s) # Quote THEN Fail ELSE NameRead(ScanString(After(s, 1), <<>>), acc)

\* Nothing but white space may follow the value.
WholeText(r) ==
    IF r.ok /\ SkipWs(r.rest) = <<>> THEN [ok |-> TRUE, value |-> r.value]
    ELSE [ok |-> FALSE, value |-> Undefined]

\* JSON.parse: ok = FALSE stands for the SyntaxError it throws.
JSONparse(text) == WholeText(ParseValue(SkipWs(text)))

\* ------------------------------------------------------------ input domains
Keys == {"users:1", "users:2"}
\* The keys the callers keep lists and hashes under.
ListKeys == {"users:2"}
HashKeys == {"users:1"}
\* The key another client keeps a value of another type (a Redis set) under.
OtherTypeKeys == {"users:1"}
\* The keys the callers attach expirations to, and the ttl arguments they pass
\* (0 stands for a ttl that is omitted, null or zero).
TtlKeys == {"users:2"}
Ttls(k) == IF k \in TtlKeys THEN 0..MaxTtl ELSE {0}
Fields == {Utf16("f1"), Utf16("f2")}
\* The hash field another client of the store writes to.
ForeignFields == {Utf16("f1")}
Prefixes == {"users", "non:existent"}
Patterns == {"*", "users:1*", "non:existent:*"}
Ranges == {<<0, -1>>, <<1, 2>>}

Alice == JsString(Utf16("Alice"))
NaN == JsNumber("NaN")
\* What the callers store: a string, a number, and the BigInt 1n, a value
\* JSON.stringify throws a TypeError for.
SetValues == {Alice, NaN, [t |-> "bigint", v |-> Utf16("1")]}
PushValues == {Alice}
\* What the callers push in the list-only specification.
LongValues == {JsString(Utf16("first")), JsString(Utf16("second")), JsString(Utf16("third"))}

\* Text another client of the same store may have written.
ForeignTexts == {Utf16("oops")}

\* The type getAll has not asked the store for yet.
Nil == "<nil>"

\* ---------------------------------------------------------------- keyspace
\* A hash holds its fields as <<field, text>> pairs in the order they were
\* created in, which is the order HGETALL lists them in.
HasField(h, field) == \E i \in 1..Len(h) : h[i][1] = field
\* The text of a field the hash has.
Field(h, field) == h[CHOOSE i \in 1..Len(h) : h[i][1] = field][2]
\* HSET: a field there already keeps its place, a new one goes last.
HashPut(h, field, text) ==
    IF HasField(h, field)
    THEN [i \in 1..Len(h) |-> IF h[i][1] = field THEN <<field, text>> ELSE h[i]]
    ELSE Append(h, <<field, text>>)
NoEntry == [type |-> "none", str |-> <<>>, list |-> <<>>, hash |-> <<>>, ttl |-> -2]
StringEntry(text, ttl) == [type |-> "string", str |-> text, list |-> <<>>, hash |-> <<>>, ttl |-> ttl]
ListEntry(l, ttl) ==
    IF l = <<>> THEN NoEntry
    ELSE [type |-> "list", str |-> <<>>, list |-> l, hash |-> <<>>, ttl |-> ttl]
HashEntry(h, ttl) ==
    IF h = <<>> THEN NoEntry
    ELSE [type |-> "hash", str |-> <<>>, list |-> <<>>, hash |-> h, ttl |-> ttl]

VARIABLES
    store,      \* the Redis keyspace: key -> entry
    connected,  \* whether this.client is open
    res,        \* the outcome the caller observed for its latest operation
    call        \* the composite operation whose member calls are in flight

vars == <<store, connected, res, call>>

\* ------------------------------------------------------------ error records
\* What an operation hands its caller: a value, or a thrown error.  name tells
\* an HttpError from any other exception (a store rejection, a SyntaxError).
HttpError(message, statusCode) ==
    [state |-> "rejected", name |-> "HttpError", message |-> message,
     statusCode |-> statusCode, val |-> Undefined]
RawError ==
    [state |-> "rejected", name |-> "Error", message |-> "", statusCode |-> 0, val |-> Undefined]
Resolved(val) ==
    [state |-> "fulfilled", name |-> "", message |-> "", statusCode |-> 0, val |-> val]
Awaiting ==
    [state |-> "pending", name |-> "", message |-> "", statusCode |-> 0, val |-> Undefined]

\* catch (err) { throw new HttpError(generic, 500) }
CatchWrap(out, generic) ==
    IF out.state = "rejected" THEN HttpError(generic, 500) ELSE out

\* The catch clause without its instanceof test: every error is wrapped anew.
CatchRewrap(out, generic) ==
    IF out.state = "rejected" THEN HttpError(generic, 500) ELSE out

\* catch (err) { if (err instanceof HttpError) throw err; throw new HttpError(generic, 500) }
CatchForward(out, generic) ==
    IF out.state # "rejected" THEN out
    ELSE IF out.name = "HttpError" THEN out
    ELSE HttpError(generic, 500)

\* The catch clause of refreshKey with nothing thrown from it.
CatchSwallow(out) ==
    IF out.state = "rejected" THEN Resolved(Undefined) ELSE out

\* catch (error) { if (error instanceof HttpError) throw error }
CatchForwardOnly(out) ==
    IF out.state # "rejected" THEN out
    ELSE IF out.name = "HttpError" THEN out
    ELSE Resolved(Undefined)

\* The value JSON.parse returned, or the error it threw.
Parsed(p) == IF p.ok THEN Resolved(p.value) ELSE RawError

\* A decode that swallows malformed text instead of throwing.
DecodeLenient(value, parse) ==
    IF ~parse THEN Resolved(value)
    ELSE IF JSONparse(value.v).ok THEN Resolved(JSONparse(value.v).value)
    ELSE Resolved(Undefined)

\* parse ? JSON.parse(value) : value
Decode(value, parse) ==
    IF ~parse THEN Resolved(value) ELSE Parsed(JSONparse(value.v))

\* ------------------------------------------------------ the store's commands
\* Each takes the entry under the key and says what the client call does:
\* err = TRUE is a rejected call (transport failure, closed client, WRONGTYPE).
Threw == [err |-> TRUE, reply |-> Undefined, entry |-> NoEntry]
Reply(r, e) == [err |-> FALSE, reply |-> r, entry |-> e]

\* text is the argument as JavaScript hands it over: the client throws on one
\* that is not a string.
clientSet(e, text, options, down) ==
    IF down \/ text.t # "string" THEN [Threw EXCEPT !.entry = e]
    ELSE Reply("OK", StringEntry(text.v, IF options = 0 THEN -1 ELSE options))

clientGet(e, down) ==
    IF down \/ e.type \notin {"none", "string"} THEN [Threw EXCEPT !.entry = e]
    ELSE Reply(IF e.type = "none" THEN JsNull ELSE JsString(e.str), e)

clientDel(e, down) ==
    IF down THEN [Threw EXCEPT !.entry = e]
    ELSE Reply(IF e.type = "none" THEN 0 ELSE 1, NoEntry)

clientRPush(e, text, down) ==
    IF down \/ text.t # "string" \/ e.type \notin {"none", "list"}
    THEN [Threw EXCEPT !.entry = e]
    ELSE Reply(Len(e.list) + 1,
               ListEntry(Append(e.list, text.v), IF e.type = "none" THEN -1 ELSE e.ttl))

\* A pop at the head of the list (LPOP).
clientLPop(e, down) ==
    IF down \/ e.type \notin {"none", "list"} THEN [Threw EXCEPT !.entry = e]
    ELSE IF e.type = "none" THEN Reply(JsNull, e)
    ELSE Reply(JsString(e.list[1]), ListEntry(SubSeq(e.list, 2, Len(e.list)), e.ttl))

clientRPop(e, down) ==
    IF down \/ e.type \notin {"none", "list"} THEN [Threw EXCEPT !.entry = e]
    ELSE IF e.type = "none" THEN Reply(JsNull, e)
    ELSE Reply(JsString(e.list[Len(e.list)]), ListEntry(SubSeq(e.list, 1, Len(e.list) - 1), e.ttl))

\* LREM key count text: count = 0 removes every occurrence, count > 0 the
\* first count occurrences from the head; the reply is the number removed.
clientLRem(e, count, text, down) ==
    IF down \/ text.t # "string" \/ e.type \notin {"none", "list"}
    THEN [Threw EXCEPT !.entry = e]
    ELSE LET hits(i) == Cardinality({j \in 1..i : e.list[j] = text.v})
             gone == {i \in 1..Len(e.list) :
                        e.list[i] = text.v /\ (count = 0 \/ hits(i) <= count)}
             idx == SelectSeq([i \in 1..Len(e.list) |-> i], LAMBDA i : i \notin gone)
             kept == [j \in 1..Len(idx) |-> e.list[idx[j]]]
         IN  Reply(Cardinality(gone), ListEntry(kept, e.ttl))

\* LRANGE: both ends inclusive, zero-based, a negative index counts from the tail.
clientLRange(e, start, end, down) ==
    IF down \/ e.type \notin {"none", "list"} THEN [Threw EXCEPT !.entry = e]
    ELSE LET n == Len(e.list)
             s0 == IF start < 0 THEN n + start ELSE start
             e0 == IF end < 0 THEN n + end ELSE end
             lo == IF s0 < 0 THEN 0 ELSE s0
             hi == IF e0 >= n THEN n - 1 ELSE e0
         IN  Reply(IF lo > hi THEN <<>> ELSE SubSeq(e.list, lo + 1, hi + 1), e)

clientHSet(e, field, text, down) ==
    IF down \/ text.t # "string" \/ e.type \notin {"none", "hash"}
    THEN [Threw EXCEPT !.entry = e]
    ELSE Reply(IF HasField(e.hash, field) THEN 0 ELSE 1,
               HashEntry(HashPut(e.hash, field, text.v), IF e.type = "none" THEN -1 ELSE e.ttl))

clientHGet(e, field, down) ==
    IF down \/ e.type \notin {"none", "hash"} THEN [Threw EXCEPT !.entry = e]
    ELSE Reply(IF HasField(e.hash, field) THEN JsString(Field(e.hash, field)) ELSE JsNull, e)

\* HGETALL of a key that holds no hash: the client replies with an empty
\* object, or (asNull) with the null that hashGetAll tests its reply for.
clientHGetAll(e, asNull, down) ==
    IF down \/ e.type \notin {"none", "hash"} THEN [Threw EXCEPT !.entry = e]
    ELSE IF asNull /\ e.type = "none" THEN Reply(JsNull, e)
    ELSE Reply(JsObject([i \in 1..Len(e.hash) |-> <<e.hash[i][1], JsString(e.hash[i][2])>>]), e)

clientHDel(e, field, down) ==
    IF down \/ e.type \notin {"none", "hash"} THEN [Threw EXCEPT !.entry = e]
    ELSE Reply(IF HasField(e.hash, field) THEN 1 ELSE 0,
               HashEntry(SelectSeq(e.hash, LAMBDA m : m[1] # field), e.ttl))

\* EXPIRE: whether the key was there.  The client hands the store's 1 / 0 on
\* as a number or turns it into a boolean, depending on its release.
clientExpire(e, ttl, asBoolean, down) ==
    IF down THEN [Threw EXCEPT !.entry = e]
    ELSE LET found == e.type # "none"
             reply == IF asBoolean THEN JsBoolean(found)
                      ELSE JsInteger(IF found THEN 1 ELSE 0)
         IN  Reply(reply, IF ~found THEN e
                          ELSE IF ttl <= 0 THEN NoEntry
                          ELSE [e EXCEPT !.ttl = ttl])

\* TTL: -2 for no key, -1 for a key without expiration, else the time left
\* rounded to the nearest second.  An entry holds the seconds left counted up
\* to a whole second; late says the call falls in the later half of the
\* second that runs, where the store rounds down.
clientTtl(e, late, down) ==
    IF down THEN [Threw EXCEPT !.entry = e]
    ELSE Reply(IF late /\ e.ttl > 0 THEN e.ttl - 1 ELSE e.ttl, e)

clientType(e, down) ==
    IF down THEN [Threw EXCEPT !.entry = e]
    ELSE Reply(e.type, e)

\* The glob patterns the callers use, matched as KEYS matches them.
Matches(pattern, key) ==
    CASE pattern = "*" -> TRUE
      [] pattern = "users:*" -> key \in {"users:1", "users:2"}
      [] pattern = "users:1*" -> key = "users:1"
      [] OTHER -> FALSE

\* An enumeration that ignores its pattern.
MatchingAny(S, pattern) == {k \in Keys : S[k].type # "none"}

Matching(S, pattern) == {k \in Keys : S[k].type # "none" /\ Matches(pattern, k)}

\* KEYS replies in an order of the store's choosing: any arrangement of the matches.
Enumerations(ks) ==
    {s \in UNION {[1..n -> ks] : n \in {Cardinality(ks)}} :
        \A i, j \in 1..Cardinality(ks) : i # j => s[i] # s[j]}

\* ------------------------------------------------- the primitive operations
\* Each takes the entry under its key and gives the outcome the caller sees
\* (out), the entry afterwards, and whether the store call itself threw.
Outcome(out, r) == [out |-> out, entry |-> r.entry, threw |-> r.err]

\* JSON.stringify(value), an argument of the store call, threw: no call is made.
Uncalled(e) == [err |-> FALSE, reply |-> Undefined, entry |-> e]

\* set that leaves its ttl argument out of the store call.
setWithoutExpiry(e, value, ttl, down) ==
    LET text == JSONstringify(value)
        r == clientSet(e, text, 0, down)
    IN  IF text.t = "TypeError"
        THEN Outcome(CatchWrap(RawError, "Error saving to Redis"), Uncalled(e))
        ELSE Outcome(CatchWrap(IF r.err THEN RawError ELSE Resolved(Undefined),
                               "Error saving to Redis"), r)

set(e, value, ttl, down) ==
    LET options == IF ttl # 0 THEN ttl ELSE 0
        text == JSONstringify(value)
        r == clientSet(e, text, options, down)
    IN  IF text.t = "TypeError"
        THEN Outcome(CatchWrap(RawError, "Error saving to Redis"), Uncalled(e))
        ELSE Outcome(CatchWrap(IF r.err THEN RawError ELSE Resolved(Undefined),
                               "Error saving to Redis"), r)

\* get without its test for a null reply.
getNoNullCheck(e, parse, down) ==
    LET r == clientGet(e, down)
        body == IF r.err THEN RawError ELSE Decode(r.reply, parse)
    IN  Outcome(CatchForward(body, "Error fetching from Redis"), r)

get(e, parse, down) ==
    LET r == clientGet(e, down)
        body == IF r.err THEN RawError
                ELSE IF r.reply.t = "null" THEN HttpError("Key not found", 404)
                ELSE Decode(r.reply, parse)
    IN  Outcome(CatchForward(body, "Error fetching from Redis"), r)

\* delete that takes a key already gone for deleted.
deleteIfPresent(e, down) ==
    LET r == clientDel(e, down)
        body == IF r.err THEN RawError ELSE Resolved(Undefined)
    IN  Outcome(CatchForward(body, "Error deleting from Redis"), r)

delete(e, down) ==
    LET r == clientDel(e, down)
        body == IF r.err THEN RawError
                ELSE IF r.reply = 0 THEN HttpError("Key not found", 404)
                ELSE Resolved(Undefined)
    IN  Outcome(CatchForward(body, "Error deleting from Redis"), r)

listPush(e, value, down) ==
    LET text == JSONstringify(value)
        r == clientRPush(e, text, down)
    IN  IF text.t = "TypeError"
        THEN Outcome(CatchWrap(RawError, "Error pushing to Redis list"), Uncalled(e))
        ELSE Outcome(CatchWrap(IF r.err THEN RawError ELSE Resolved(Undefined),
                               "Error pushing to Redis list"), r)

listPop(e, parse, down) ==
    LET r == clientRPop(e, down)
        body == IF r.err THEN RawError
                ELSE IF r.reply.t = "null" THEN HttpError("List is empty", 404)
                ELSE Decode(r.reply, parse)
    IN  Outcome(CatchForward(body, "Error popping from Redis list"), r)

\* listRemove asking the store for one occurrence only (count 1).
listRemoveFirst(e, value, down) ==
    LET text == JSONstringify(value)
        r == clientLRem(e, 1, text, down)
        body == IF r.err THEN RawError
                ELSE IF r.reply = 0 THEN HttpError("Value not found in list", 404)
                ELSE Resolved(Undefined)
    IN  IF text.t = "TypeError"
        THEN Outcome(CatchForward(RawError, "Error removing from Redis list"), Uncalled(e))
        ELSE Outcome(CatchForward(body, "Error removing from Redis list"), r)

listRemove(e, value, down) ==
    LET text == JSONstringify(value)
        r == clientLRem(e, 0, text, down)
        body == IF r.err THEN RawError
                ELSE IF r.reply = 0 THEN HttpError("Value not found in list", 404)
                ELSE Resolved(Undefined)
    IN  IF text.t = "TypeError"
        THEN Outcome(CatchForward(RawError, "Error removing from Redis list"), Uncalled(e))
        ELSE Outcome(CatchForward(body, "Error removing from Redis list"), r)

\* The array of the values parsed, unless one JSON.parse threw.
AllParsed(ps) ==
    IF \E i \in 1..Len(ps) : ~ps[i].ok THEN RawError
    ELSE Resolved(JsArray([i \in 1..Len(ps) |-> ps[i].value]))

\* values.map((v) => JSON.parse(v)): one bad element throws for the whole list.
DecodeAll(texts, parse) ==
    IF ~parse THEN Resolved(JsArray([i \in 1..Len(texts) |-> JsString(texts[i])]))
    ELSE AllParsed([i \in 1..Len(texts) |-> JSONparse(texts[i])])

\* listGet reading its end index as one past the last element wanted.
listGetExclusive(e, start, end, parse, down) ==
    LET r == clientLRange(e, start, end - 1, down)
        body == IF r.err THEN RawError
                ELSE IF Len(r.reply) = 0 THEN HttpError("List is empty", 404)
                ELSE DecodeAll(r.reply, parse)
    IN  Outcome(CatchWrap(body, "Error fetching from Redis list"), r)

listGet(e, start, end, parse, down) ==
    LET r == clientLRange(e, start, end, down)
        body == IF r.err THEN RawError
                ELSE IF Len(r.reply) = 0 THEN HttpError("List is empty", 404)
                ELSE DecodeAll(r.reply, parse)
    IN  Outcome(CatchWrap(body, "Error fetching from Redis list"), r)

hashSet(e, field, value, down) ==
    LET text == JSONstringify(value)
        r == clientHSet(e, field, text, down)
    IN  IF text.t = "TypeError"
        THEN Outcome(CatchWrap(RawError, "Error saving to Redis hash"), Uncalled(e))
        ELSE Outcome(CatchWrap(IF r.err THEN RawError ELSE Resolved(Undefined),
                               "Error saving to Redis hash"), r)

hashGet(e, field, parse, down) ==
    LET r == clientHGet(e, field, down)
        body == IF r.err THEN RawError
                ELSE IF r.reply.t = "null" THEN HttpError("Field not found", 404)
                ELSE Decode(r.reply, parse)
    IN  Outcome(CatchForward(body, "Error fetching from Redis hash"), r)

\* The object of the values parsed under their fields, unless one JSON.parse threw.
EntriesParsed(h, ps) ==
    IF \E i \in 1..Len(ps) : ~ps[i].ok THEN RawError
    ELSE Resolved(JsObject([i \in 1..Len(h) |-> <<h[i][1], ps[i].value>>]))

\* Object.fromEntries(Object.entries(value).map(([k, v]) => [k, JSON.parse(v)]))
\* over the <<field, text>> properties of the reply, in their order.
DecodeEntries(h, parse) ==
    IF ~parse THEN Resolved(JsObject(h))
    ELSE EntriesParsed(h, [i \in 1..Len(h) |-> JSONparse(h[i][2].v)])

\* On a null reply the method throws 'Field not found'; in dev mode its log
\* line throws first (it names a variable the method does not have) and the
\* catch clause wraps that error.  An empty object is decoded like any other.
hashGetAll(e, parse, dev, asNull, down) ==
    LET r == clientHGetAll(e, asNull, down)
        body == IF r.err THEN RawError
                ELSE IF r.reply.t = "null"
                THEN IF dev THEN RawError ELSE HttpError("Field not found", 404)
                ELSE DecodeEntries(r.reply.v, parse)
    IN  Outcome(CatchForward(body, "Error finding the Redis hash"), r)

\* hashDelete deleting the key instead of the field.
hashDeleteKey(e, field, down) ==
    LET r == clientDel(e, down)
        body == IF r.err THEN RawError
                ELSE IF r.reply = 0 THEN HttpError("Field not found", 404)
                ELSE Resolved(Undefined)
    IN  Outcome(CatchForward(body, "Error deleting from Redis hash"), r)

hashDelete(e, field, down) ==
    LET r == clientHDel(e, field, down)
        body == IF r.err THEN RawError
                ELSE IF r.reply = 0 THEN HttpError("Field not found", 404)
                ELSE Resolved(Undefined)
    IN  Outcome(CatchForward(body, "Error deleting from Redis hash"), r)

\* result === 0 is strict: it holds for the number 0 and not for false.
refreshKey(e, ttl, asBoolean, down) ==
    LET r == clientExpire(e, ttl, asBoolean, down)
        body == IF r.err THEN RawError
                ELSE IF r.reply = JsInteger(0) THEN HttpError("Key not found", 404)
                ELSE Resolved(Undefined)
    IN  Outcome(CatchForwardOnly(body), r)

\* getTimeToLive taking every negative reply for a missing key.
getTimeToLiveNegative(e, late, down) ==
    LET r == clientTtl(e, late, down)
        body == IF r.err THEN RawError
                ELSE IF r.reply < 0 THEN HttpError("Key not found", 404)
                ELSE Resolved(JsInteger(r.reply))
    IN  Outcome(CatchForward(body, "Error fetching TTL from Redis"), r)

getTimeToLive(e, late, down) ==
    LET r == clientTtl(e, late, down)
        body == IF r.err THEN RawError
                ELSE IF r.reply = -2 THEN HttpError("Key not found", 404)
                ELSE Resolved(JsInteger(r.reply))
    IN  Outcome(CatchForward(body, "Error fetching TTL from Redis"), r)

\* ------------------------------------------------------------ initial state
\* After construction: a client that is not yet connected, no operation made.
\* The store is shared with other clients and starts empty.
Idle ==
    [op |-> "idle", keys |-> <<>>, pending |-> {}, outs |-> <<>>,
     settled |-> FALSE, first |-> 0, ktype |-> Nil, dirty |-> FALSE]

Init ==
    /\ store = [k \in Keys |-> NoEntry]
    /\ connected = FALSE
    /\ res = [op |-> "none", key |-> "", out |-> Awaiting, threw |-> FALSE]
    /\ call = Idle

\* No member call of a composite is still in flight: the caller's next operation.
Quiet == call.pending = {}

\* A store call is rejected while the client is closed.
Down == ~connected

\* The caller runs one primitive operation on one key.
Primitive(name, k, o) ==
    /\ Quiet
    /\ store' = [store EXCEPT ![k] = o.entry]
    /\ res' = [op |-> name, key |-> k, out |-> o.out, threw |-> o.threw]
    /\ call' = Idle
    /\ UNCHANGED connected

\* ------------------------------------------------------ connection manager
\* client.connect() rejects on a client that is already open.
Connect ==
    /\ Quiet
    /\ LET threw == connected
       IN  /\ connected' = TRUE
           /\ res' = [op |-> "connect", key |-> "",
                      out |-> CatchWrap(IF threw THEN RawError ELSE Resolved(Undefined),
                                        "Redis connection failed"),
                      threw |-> threw]
    /\ call' = Idle
    /\ UNCHANGED store

\* client.disconnect() rejects on a client that is already closed.
Disconnect ==
    /\ Quiet
    /\ LET threw == ~connected
       IN  /\ connected' = FALSE
           /\ res' = [op |-> "disconnect", key |-> "",
                      out |-> CatchWrap(IF threw THEN RawError ELSE Resolved(Undefined),
                                        "Redis disconnection failed"),
                      threw |-> threw]
    /\ call' = Idle
    /\ UNCHANGED store

\* ------------------------------------------------------ primitive actions
Set(k, value, ttl) == Primitive("set", k, set(store[k], value, ttl, Down))

Get(k, parse) == Primitive("get", k, get(store[k], parse, Down))

Delete(k) == Primitive("delete", k, delete(store[k], Down))

ListPush(k, value) ==
    /\ Len(store[k].list) < MaxListLen
    /\ Primitive("listPush", k, listPush(store[k], value, Down))

ListPop(k, parse) == Primitive("listPop", k, listPop(store[k], parse, Down))

ListRemove(k, value) ==
    Primitive("listRemove", k, listRemove(store[k], value, Down))

ListGet(k, start, end, parse) ==
    Primitive("listGet", k, listGet(store[k], start, end, parse, Down))

HashSet(k, field, value) ==
    Primitive("hashSet", k, hashSet(store[k], field, value, Down))

HashGet(k, field, parse) ==
    Primitive("hashGet", k, hashGet(store[k], field, parse, Down))

HashGetAll(k, parse, dev, asNull) ==
    Primitive("hashGetAll", k, hashGetAll(store[k], parse, dev, asNull, Down))

HashDelete(k, field) ==
    Primitive("hashDelete", k, hashDelete(store[k], field, Down))

RefreshKey(k, ttl, asBoolean) ==
    Primitive("refreshKey", k, refreshKey(store[k], ttl, asBoolean, Down))

GetTimeToLive(k, late) ==
    Primitive("getTimeToLive", k, getTimeToLive(store[k], late, Down))

\* ------------------------------------------ the store's other clients, time
\* A change to the keyspace that this facade did not make; dirty notes that it
\* fell inside the latest composite operation.
Elsewhere(S) ==
    /\ store' = S
    /\ call' = IF call.op = "idle" THEN call ELSE [call EXCEPT !.dirty = TRUE]
    /\ UNCHANGED <<connected, res>>

ForeignSet(k, text) ==
    Elsewhere([store EXCEPT ![k] = clientSet(store[k], JsString(text), 0, FALSE).entry])

ForeignPush(k, text) ==
    /\ Len(store[k].list) < MaxListLen
    /\ ~clientRPush(store[k], JsString(text), FALSE).err
    /\ Elsewhere([store EXCEPT ![k] = clientRPush(store[k], JsString(text), FALSE).entry])

ForeignHSet(k, field, text) ==
    /\ ~clientHSet(store[k], field, JsString(text), FALSE).err
    /\ Elsewhere([store EXCEPT ![k] = clientHSet(store[k], field, JsString(text), FALSE).entry])

\* SADD by another client on a key that is free.
ForeignSAdd(k) ==
    /\ store[k].type = "none"
    /\ Elsewhere([store EXCEPT ![k] = [NoEntry EXCEPT !.type = "set", !.ttl = -1]])

ForeignDel(k) ==
    /\ store[k].type # "none"
    /\ Elsewhere([store EXCEPT ![k] = clientDel(store[k], FALSE).entry])

\* The connection is lost: the client is closed until the next connect().
Drop ==
    /\ connected
    /\ connected' = FALSE
    /\ UNCHANGED <<store, res, call>>

\* The client's reconnect strategy reopens a lost connection by itself.  A
\* connection is known to be lost, not closed by the caller, while a composite
\* that started on an open client still has member calls in flight.
Reconnect ==
    /\ ~connected
    /\ ~Quiet
    /\ connected' = TRUE
    /\ UNCHANGED <<store, res, call>>

\* One second passes: every expiration draws nearer, a key at its end is gone.
Tick ==
    /\ \E k \in Keys : store[k].ttl > 0
    /\ Elsewhere([k \in Keys |->
                    IF store[k].ttl > 1 THEN [store[k] EXCEPT !.ttl = @ - 1]
                    ELSE IF store[k].ttl = 1 THEN NoEntry
                    ELSE store[k]])

\* ------------------------------------------------------ composite operations
\* A join that files each member's value in order of arrival.
ArrivalSlot(c, i) == Len(c.keys) - Cardinality(c.pending) + 1

\* Promise.all keeps each member's value at the member's own index.
PromiseAllSlot(c, i) == i

\* Member i of the fan-out settles with out.  Promise.all settles on the first
\* rejection, or once every member is fulfilled; later members only finish.
Settle(c, i, out) ==
    [c EXCEPT !.outs[PromiseAllSlot(c, i)] = out,
              !.pending = @ \ {i},
              !.settled = @ \/ out.state = "rejected" \/ c.pending = {i},
              !.first = IF ~c.settled /\ out.state = "rejected" THEN i ELSE @]

Started(name, order) ==
    [op |-> name, keys |-> order, pending |-> 1..Len(order),
     outs |-> [i \in 1..Len(order) |-> Awaiting],
     settled |-> FALSE, first |-> 0, ktype |-> Nil, dirty |-> FALSE]

\* An enumeration without its test for an empty reply.
EnumerateUnchecked(name, arg, pattern, order, empty, generic) ==
    /\ Quiet
    /\ order \in Enumerations(Matching(store, pattern))
    /\ IF Down
       THEN /\ res' = [op |-> name, key |-> arg,
                       out |-> CatchForward(RawError, generic), threw |-> TRUE]
            /\ call' = Idle
       ELSE /\ res' = [op |-> name, key |-> arg,
                       out |-> IF Len(order) = 0 THEN Resolved(JsArray(<<>>)) ELSE Awaiting,
                       threw |-> FALSE]
            /\ call' = Started(name, order)
    /\ UNCHANGED <<store, connected>>

\* const keys = await this.client.keys(pattern); if (keys.length === 0) throw ...
\* and the composite's own catch clause for what the enumeration throws.
Enumerate(name, arg, pattern, order, empty, generic) ==
    /\ Quiet
    /\ order \in Enumerations(Matching(store, pattern))
    /\ IF Down
       THEN /\ res' = [op |-> name, key |-> arg,
                       out |-> CatchForward(RawError, generic), threw |-> TRUE]
            /\ call' = Idle
       ELSE IF Len(order) = 0
       THEN /\ res' = [op |-> name, key |-> arg,
                       out |-> CatchForward(HttpError(empty, 404), generic), threw |-> FALSE]
            /\ call' = Idle
       ELSE /\ res' = [op |-> name, key |-> arg, out |-> Awaiting, threw |-> FALSE]
            /\ call' = Started(name, order)
    /\ UNCHANGED <<store, connected>>

\* keys.map((key, index) => ({ [key]: values[index] }))
Records(keys, outs) ==
    JsArray([i \in 1..Len(keys) |-> [key |-> keys[i], val |-> outs[i].val]])

\* A join that returns as soon as one member is fulfilled.
JoinedEarly(i, o, value, generic) ==
    IF call.settled THEN res
    ELSE IF o.out.state = "rejected"
    THEN [res EXCEPT !.out = CatchForward(o.out, generic), !.threw = o.threw]
    ELSE [res EXCEPT !.out = Resolved(value)]

\* What the composite's caller sees once member i has settled with o.out.
Joined(i, o, value, generic) ==
    IF call.settled THEN res
    ELSE IF o.out.state = "rejected"
    THEN [res EXCEPT !.out = CatchForward(o.out, generic), !.threw = o.threw]
    ELSE IF call.pending = {i} THEN [res EXCEPT !.out = Resolved(value)]
    ELSE res

GetByPrefix(prefix, order) ==
    Enumerate("getByPrefix", prefix, prefix \o ":*", order,
              "Index not found", "Error fetching keys by prefix")

\* A member read that picks the operation by the key's type, as getAll does.
GetByPrefixMemberByType(i) ==
    /\ call.op = "getByPrefix"
    /\ i \in call.pending
    /\ LET e == store[call.keys[i]]
           o == CASE e.type = "list" -> listGet(e, 0, -1, TRUE, Down)
                  [] e.type = "hash" -> hashGetAll(e, TRUE, FALSE, FALSE, Down)
                  [] OTHER -> get(e, TRUE, Down)
           c == Settle(call, i, o.out)
       IN  /\ call' = c
           /\ res' = Joined(i, o, Records(c.keys, c.outs), "Error fetching keys by prefix")
    /\ UNCHANGED <<store, connected>>

\* One of the concurrent this.get(key, true) calls completes.
GetByPrefixMember(i) ==
    /\ call.op = "getByPrefix"
    /\ i \in call.pending
    /\ LET o == get(store[call.keys[i]], TRUE, Down)
           c == Settle(call, i, o.out)
       IN  /\ call' = c
           /\ res' = Joined(i, o, Records(c.keys, c.outs), "Error fetching keys by prefix")
    /\ UNCHANGED <<store, connected>>

DeleteAll(pattern, order) ==
    Enumerate("deleteAll", pattern, pattern, order,
              "No keys found", "Error deleting all keys from Redis")

\* One of the concurrent this.delete(key) calls completes.
DeleteAllMember(i) ==
    /\ call.op = "deleteAll"
    /\ i \in call.pending
    /\ LET o == delete(store[call.keys[i]], Down)
       IN  /\ call' = Settle(call, i, o.out)
           /\ res' = Joined(i, o, Undefined, "Error deleting all keys from Redis")
           /\ store' = [store EXCEPT ![call.keys[i]] = o.entry]
    /\ UNCHANGED connected

GetAll(order) ==
    Enumerate("getAll", "*", "*", order,
              "No keys found", "Error fetching all keys from Redis")

\* A loop that pushes a record for every key, read or not.
PushedAll(keys, outs) ==
    JsArray([i \in 1..Len(keys) |-> [key |-> keys[i], val |-> outs[i].val]])

\* The records pushed so far: one per key that was read, in loop order.
Pushed(keys, outs) ==
    LET idx == SelectSeq([i \in 1..Len(keys) |-> i], LAMBDA i : outs[i].state = "fulfilled")
    IN  JsArray([j \in 1..Len(idx) |-> [key |-> keys[idx[j]], val |-> outs[idx[j]].val]])

\* A throw inside the loop ends it: nothing further is in flight.
Thrown(c, i, out) ==
    [c EXCEPT !.outs[i] = out, !.pending = {}, !.settled = TRUE, !.ktype = Nil,
              !.first = IF out.state = "rejected" THEN i ELSE @]

\* Key i is done (read or skipped); after the last key getAll returns values.
Advanced(c, i, out) ==
    [c EXCEPT !.outs[i] = out, !.pending = @ \ {i}, !.settled = (c.pending = {i}),
              !.ktype = Nil]

\* for (const key of keys): the keys are handled one after the other, in order,
\* so the key at hand is the first that is pending.
\* const type = await this.client.type(key)
GetAllType ==
    /\ call.op = "getAll"
    /\ call.pending # {}
    /\ call.ktype = Nil
    /\ LET i == CHOOSE n \in call.pending : \A j \in call.pending : n <= j
           r == clientType(store[call.keys[i]], Down)
       IN  IF r.err
           THEN /\ call' = Thrown(call, i, Awaiting)
                /\ res' = [res EXCEPT
                             !.out = CatchForward(RawError, "Error fetching all keys from Redis"),
                             !.threw = TRUE]
           ELSE IF r.reply \in {"string", "list", "hash"}
           THEN /\ call' = [call EXCEPT !.ktype = r.reply]
                /\ res' = res
           ELSE LET c == Advanced(call, i, [Awaiting EXCEPT !.state = "skipped"])
                IN  /\ call' = c
                    /\ res' = IF c.settled
                              THEN [res EXCEPT !.out = Resolved(Pushed(c.keys, c.outs))]
                              ELSE res
    /\ UNCHANGED <<store, connected>>

\* values.push({ [key]: await this.get / listGet / hashGetAll(key, ..., true) })
GetAllRead ==
    /\ call.op = "getAll"
    /\ call.pending # {}
    /\ call.ktype # Nil
    /\ \E dev \in BOOLEAN, asNull \in BOOLEAN :
       LET i == CHOOSE n \in call.pending : \A j \in call.pending : n <= j
           e == store[call.keys[i]]
           o == CASE call.ktype = "string" -> get(e, TRUE, Down)
                  [] call.ktype = "list" -> listGet(e, 0, -1, TRUE, Down)
                  [] OTHER -> hashGetAll(e, TRUE, dev, asNull, Down)
       IN  IF o.out.state = "rejected"
           THEN /\ call' = Thrown(call, i, o.out)
                /\ res' = [res EXCEPT
                             !.out = CatchForward(o.out, "Error fetching all keys from Redis"),
                             !.threw = o.threw]
           ELSE LET c == Advanced(call, i, o.out)
                IN  /\ call' = c
                    /\ res' = IF c.settled
                              THEN [res EXCEPT !.out = Resolved(Pushed(c.keys, c.outs))]
                              ELSE res
    /\ UNCHANGED <<store, connected>>

\* ---------------------------------------------------------- specification
\* Every arrangement of every set of keys: what an enumeration may reply.
Orders == UNION {Enumerations(ks) : ks \in SUBSET Keys}

Next ==
    \/ Connect
    \/ Disconnect
    \/ \E k \in Keys, value \in SetValues : \E ttl \in Ttls(k) : Set(k, value, ttl)
    \/ \E k \in Keys, parse \in BOOLEAN : Get(k, parse)
    \/ \E k \in Keys : Delete(k)
    \/ \E k \in ListKeys, value \in PushValues : ListPush(k, value)
    \/ \E k \in ListKeys, parse \in BOOLEAN : ListPop(k, parse)
    \/ \E k \in ListKeys, value \in PushValues : ListRemove(k, value)
    \/ \E k \in ListKeys, r \in Ranges, parse \in BOOLEAN : ListGet(k, r[1], r[2], parse)
    \/ \E k \in HashKeys, f \in Fields, value \in {Alice} : HashSet(k, f, value)
    \/ \E k \in HashKeys, f \in Fields, parse \in BOOLEAN : HashGet(k, f, parse)
    \/ \E k \in HashKeys, parse \in BOOLEAN, dev \in BOOLEAN, asNull \in BOOLEAN :
          HashGetAll(k, parse, dev, asNull)
    \/ \E k \in HashKeys, f \in Fields : HashDelete(k, f)
    \/ \E k \in TtlKeys, ttl \in 1..MaxTtl, asBoolean \in BOOLEAN : RefreshKey(k, ttl, asBoolean)
    \/ \E k \in Keys, late \in BOOLEAN : GetTimeToLive(k, late)
    \/ \E p \in Prefixes, order \in Orders : GetByPrefix(p, order)
    \/ \E i \in 1..Cardinality(Keys) : GetByPrefixMember(i)
    \/ \E p \in Patterns, order \in Orders : DeleteAll(p, order)
    \/ \E i \in 1..Cardinality(Keys) : DeleteAllMember(i)
    \/ \E order \in Orders : GetAll(order)
    \/ GetAllType
    \/ GetAllRead
    \/ \E k \in Keys, text \in ForeignTexts : ForeignSet(k, text)
    \/ \E k \in ListKeys, text \in ForeignTexts : ForeignPush(k, text)
    \/ \E k \in HashKeys, f \in ForeignFields, text \in ForeignTexts : ForeignHSet(k, f, text)
    \/ \E k \in OtherTypeKeys : ForeignSAdd(k)
    \/ \E k \in Keys : ForeignDel(k)
    \/ Drop
    \/ Reconnect
    \/ Tick

Spec == Init /\ [][Next]_vars

\* The list operations alone, on lists of up to MaxLongList distinct elements.
ListPushMany(k, value) ==
    /\ Len(store[k].list) < MaxLongList
    /\ Primitive("listPush", k, listPush(store[k], value, Down))

NextLists ==
    \/ Connect
    \/ \E k \in ListKeys, value \in LongValues : ListPushMany(k, value)
    \/ \E k \in ListKeys, parse \in BOOLEAN : ListPop(k, parse)
    \/ \E k \in ListKeys, value \in LongValues : ListRemove(k, value)
    \/ \E k \in ListKeys, r \in Ranges, parse \in BOOLEAN : ListGet(k, r[1], r[2], parse)

SpecLists == Init /\ [][NextLists]_vars

\* The primitives alone, on a store other clients write to as well: no
\* composite call, no expiry and no loss of the connection.
NextPrimitives ==
    \/ Connect
    \/ \E k \in Keys, value \in SetValues : \E ttl \in Ttls(k) : Set(k, value, ttl)
    \/ \E k \in Keys, parse \in BOOLEAN : Get(k, parse)
    \/ \E k \in Keys : Delete(k)
    \/ \E k \in ListKeys, value \in PushValues : ListPush(k, value)
    \/ \E k \in ListKeys, parse \in BOOLEAN : ListPop(k, parse)
    \/ \E k \in ListKeys, r \in Ranges, parse \in BOOLEAN : ListGet(k, r[1], r[2], parse)
    \/ \E k \in HashKeys, f \in Fields, value \in {Alice} : HashSet(k, f, value)
    \/ \E k \in HashKeys, f \in Fields, parse \in BOOLEAN : HashGet(k, f, parse)
    \/ \E k \in HashKeys, parse \in BOOLEAN, dev \in BOOLEAN, asNull \in BOOLEAN :
          HashGetAll(k, parse, dev, asNull)
    \/ \E k \in Keys, text \in ForeignTexts : ForeignSet(k, text)
    \/ \E k \in ListKeys, text \in ForeignTexts : ForeignPush(k, text)
    \/ \E k \in HashKeys, f \in ForeignFields, text \in ForeignTexts : ForeignHSet(k, f, text)
    \/ \E k \in OtherTypeKeys : ForeignSAdd(k)

SpecPrimitives == Init /\ [][NextPrimitives]_vars

\* ================================================================== claims
Composites == {"getByPrefix", "getAll", "deleteAll"}
KeyNotFound == HttpError("Key not found", 404)

\* C1: when a member primitive of a composite (getByPrefix, deleteAll, getAll)
\* fails, the composite fails with exactly the record of the member that failed
\* first: same message, same status code, an HttpError that was not re-wrapped,
\* and no partial result comes with it.
C1_ForwardsFirstMemberError ==
    (call.op \in Composites /\ call.first # 0) =>
        /\ res.op = call.op
        /\ call.outs[call.first].state = "rejected"
        /\ res.out = call.outs[call.first]
        /\ res.out.name = "HttpError"
        /\ res.out.val = Undefined

\* C1 witness: two members of one getByPrefix failed with different records
\* and the caller holds the record of the first.
C1_Witness ==
    /\ call.op = "getByPrefix"
    /\ call.first # 0
    /\ \E i \in 1..Len(call.keys) :
          /\ i # call.first
          /\ call.outs[i].state = "rejected"
          /\ call.outs[i] # call.outs[call.first]
    /\ res.out = call.outs[call.first]

\* The range read of listGet comes back empty.
EmptyRange(e, r) ==
    /\ ~clientLRange(e, r[1], r[2], FALSE).err
    /\ clientLRange(e, r[1], r[2], FALSE).reply = <<>>

\* C2: a listGet whose range read yields an empty sequence fails with the
\* record 'List is empty', 404.
C2_ListGetEmptyIsNotFound ==
    [][\A k \in ListKeys, r \in Ranges, parse \in BOOLEAN :
          (/\ res'.op = "listGet"
           /\ connected
           /\ EmptyRange(store[k], r)
           /\ ListGet(k, r[1], r[2], parse))
              => res'.out = HttpError("List is empty", 404)]_vars

\* C3 as stated: refreshKey on a key that does not exist, the store's expire
\* replying 0, completes without an error and leaves the store unchanged.
C3_RefreshMissingIsSilent ==
    [][\A k \in TtlKeys, ttl \in 1..MaxTtl :
          (/\ res'.op = "refreshKey"
           /\ connected
           /\ store[k].type = "none"
           /\ RefreshKey(k, ttl, FALSE))
              => (res'.out.state = "fulfilled" /\ store' = store)]_vars

\* C3 amended: refreshKey on a key that does not exist, the store's expire
\* replying 0, fails with the record 'Key not found', 404, and leaves the store
\* unchanged.
C3_RefreshMissingIsNotFound ==
    [][\A k \in TtlKeys, ttl \in 1..MaxTtl :
          (/\ res'.op = "refreshKey"
           /\ connected
           /\ store[k].type = "none"
           /\ RefreshKey(k, ttl, FALSE))
              => (res'.out = KeyNotFound /\ store' = store)]_vars

\* C3 witness: a refreshKey that reached the store and found no key.
C3_Witness ==
    /\ res.op = "refreshKey"
    /\ ~res.threw
    /\ res.out = KeyNotFound

\* C4: an operation whose store call failed reports a StoreFailure record with
\* status 500 to its caller, never success.
C4_StoreFailureIs500 ==
    res.threw =>
        /\ res.out.state = "rejected"
        /\ res.out.name = "HttpError"
        /\ res.out.statusCode = 500

\* Every error record handed to a caller, or held by a member call, is an
\* HttpError with status 404 or 500.
Classified(out) ==
    out.state = "rejected" => (out.name = "HttpError" /\ out.statusCode \in {404, 500})

StoreFailure(out) ==
    out.state = "rejected" /\ out.name = "HttpError" /\ out.statusCode = 500

BadText(text) == ~JSONparse(text).ok

\* A read with parse = true meets stored text that JSON.parse rejects.
ReadsBadText ==
    \/ \E k \in Keys :
          /\ res'.op = "get" /\ connected
          /\ store[k].type = "string" /\ BadText(store[k].str)
          /\ Get(k, TRUE)
    \/ \E k \in ListKeys :
          /\ res'.op = "listPop" /\ connected
          /\ store[k].type = "list" /\ BadText(store[k].list[Len(store[k].list)])
          /\ ListPop(k, TRUE)
    \/ \E k \in ListKeys, r \in Ranges :
          /\ res'.op = "listGet" /\ connected
          /\ store[k].type = "list"
          /\ \E i \in 1..Len(clientLRange(store[k], r[1], r[2], FALSE).reply) :
                BadText(clientLRange(store[k], r[1], r[2], FALSE).reply[i])
          /\ ListGet(k, r[1], r[2], TRUE)
    \/ \E k \in HashKeys, f \in Fields :
          /\ res'.op = "hashGet" /\ connected
          /\ store[k].type = "hash" /\ HasField(store[k].hash, f) /\ BadText(Field(store[k].hash, f))
          /\ HashGet(k, f, TRUE)
    \/ \E k \in HashKeys :
          /\ res'.op = "hashGetAll" /\ connected
          /\ store[k].type = "hash" /\ \E f \in Fields : HasField(store[k].hash, f) /\ BadText(Field(store[k].hash, f))
          /\ \E dev \in BOOLEAN, asNull \in BOOLEAN : HashGetAll(k, TRUE, dev, asNull)

\* C5: every failure an operation surfaces (to the caller, or from a member
\* call to its composite) is an HttpError with status 404 or 500, and a read
\* with parse = true of stored text that is not valid JSON fails with 500.
C5_FailuresAreClassified ==
    /\ [](/\ Classified(res.out)
          /\ \A i \in 1..Len(call.outs) : Classified(call.outs[i]))
    /\ [][ReadsBadText => StoreFailure(res'.out)]_vars

\* C5 witness: hashGetAll with parse = true got its reply from the store and
\* failed with 500 on decoding it.
C5_Witness ==
    /\ res.op = "hashGetAll"
    /\ ~res.threw
    /\ StoreFailure(res.out)

\* C6: get and delete on a key the store does not hold (never written, or
\* removed) fail with 'Key not found', 404; and right after a successful
\* delete a get of that key fails that way.
C6_AbsentKeyIsNotFound ==
    [][\A k \in Keys :
          /\ (/\ res'.op \in {"get", "delete"}
              /\ connected
              /\ store[k].type = "none"
              /\ ((\E parse \in BOOLEAN : Get(k, parse)) \/ Delete(k)))
                => (res'.out = KeyNotFound /\ store' = store)
          /\ (/\ res'.op = "delete"
              /\ res'.out.state = "fulfilled"
              /\ Delete(k))
                => \A parse \in BOOLEAN : get(store'[k], parse, FALSE).out = KeyNotFound]_vars

\* C6 witness: a get that reached the store and found no key.
C6_Witness ==
    /\ res.op = "get"
    /\ ~res.threw
    /\ res.out = KeyNotFound

\* The values JSON represents: among them a string of characters the text
\* form escapes, a number written with a fraction, and an object whose
\* property 1 was created after its property b.
JsonValues ==
    {Alice, JsString(Utf16("Bob")), JsString(<<97, 8, 34, 92, 12, 13, 1>>),
     JsNumber("1"), JsNumber("2.50"), JsNull, JsBoolean(TRUE),
     JsArray(<<Alice, JsNumber("1")>>),
     JsObject(<< <<Utf16("name"), JsString(Utf16("John"))>> >>),
     JsObject(<< <<Utf16("b"), Alice>>, <<Utf16("1"), JsNull>> >>)}

\* Writing v under entry e and reading it back with parse = true gives v.
RoundTrip(e, v) ==
    /\ LET w == set(e, v, 0, FALSE)
       IN  w.out.state = "fulfilled" => get(w.entry, TRUE, FALSE).out = Resolved(v)
    /\ LET w == listPush(e, v, FALSE)
       IN  w.out.state = "fulfilled" =>
              /\ listPop(w.entry, TRUE, FALSE).out = Resolved(v)
              /\ listGet(w.entry, -1, -1, TRUE, FALSE).out = Resolved(JsArray(<<v>>))
    /\ \A f \in Fields :
          LET w == hashSet(e, f, v, FALSE)
          IN  w.out.state = "fulfilled" =>
                 /\ hashGet(w.entry, f, TRUE, FALSE).out = Resolved(v)
                 /\ hashGetAll(w.entry, TRUE, FALSE, FALSE, FALSE).out.state = "fulfilled"
                       => Lookup(hashGetAll(w.entry, TRUE, FALSE, FALSE, FALSE).out.val.v,
                                 f, Undefined) = v

\* C7 as stated: every value that set encodes and stores reads back, with
\* parse = true, as a value equal to the one written.
C7_RoundTripEveryValue ==
    [][\A k \in Keys, v \in SetValues, ttl \in 0..MaxTtl :
          (/\ res'.op = "set"
           /\ res'.out.state = "fulfilled"
           /\ Set(k, v, ttl))
              => get(store'[k], TRUE, FALSE).out = Resolved(v)]_vars

\* C7 amended: every value of JSON's data model (null, a boolean, a finite
\* number, a string, an array or an object of such values) written by set,
\* listPush or hashSet reads back with parse = true,
\* through get, listPop, listGet, hashGet and hashGetAll, as an equal value.
C7_RoundTripJsonValues ==
    \A k \in Keys, v \in JsonValues : RoundTrip(store[k], v)

\* C7 witness: a get with parse = true returned the string that set stored
\* in its quoted form.
C7_Witness ==
    /\ res.op = "get"
    /\ res.out = Resolved(Alice)
    /\ store[res.key].str = JSONstringify(Alice).v

\* C8: a successful getByPrefix returns one record per enumerated key, in
\* enumeration order, the i-th record pairing the i-th key with that key's
\* own decoded value, whatever the order in which the member gets completed.
C8_RecordsFollowEnumeration ==
    (res.op = "getByPrefix" /\ res.out.state = "fulfilled") =>
        /\ call.op = "getByPrefix"
        /\ Len(res.out.val.v) = Len(call.keys)
        /\ \A i \in 1..Len(call.keys) :
              /\ res.out.val.v[i].key = call.keys[i]
              /\ ~call.dirty =>
                    res.out.val.v[i].val = JSONparse(store[call.keys[i]].str).value
        /\ ~call.dirty =>
              {call.keys[i] : i \in 1..Len(call.keys)} = Matching(store, res.key \o ":*")

\* C8 witness: two keys with different values were fetched and paired.
C8_Witness ==
    /\ res.op = "getByPrefix"
    /\ res.out.state = "fulfilled"
    /\ ~call.dirty
    /\ Len(res.out.val.v) = 2
    /\ res.out.val.v[1].val # res.out.val.v[2].val

\* C9: after a successful deleteAll(pattern) with no concurrent writer every
\* key matching the pattern is gone (get fails 'Key not found'), and no member
\* delete removes or changes a key that does not match the pattern.
C9_DeleteAllRemovesExactlyMatches ==
    /\ []((res.op = "deleteAll" /\ res.out.state = "fulfilled" /\ ~call.dirty) =>
            \A k \in Keys : Matches(res.key, k) =>
                /\ store[k].type = "none"
                /\ get(store[k], FALSE, FALSE).out = KeyNotFound)
    /\ [][\A i \in 1..Cardinality(Keys) :
            (call.op = "deleteAll" /\ i \in call.pending /\ DeleteAllMember(i))
                => \A k \in Keys : ~Matches(res.key, k) => store'[k] = store[k]]_vars

\* C9 witness: deleteAll of a pattern that matches one key succeeded, undisturbed,
\* and the key outside the pattern is still stored.
C9_Witness ==
    /\ res.op = "deleteAll"
    /\ res.out.state = "fulfilled"
    /\ ~call.dirty
    /\ \E k \in Keys : ~Matches(res.key, k) /\ store[k].type # "none"

\* C10 as stated: deleteAll is all-or-nothing, so a call that failed has
\* removed none of the keys it enumerated.
C10_FailedDeleteAllRemovedNothing ==
    (res.op = "deleteAll" /\ res.out.state = "rejected" /\ call.op = "deleteAll") =>
        \A i \in 1..Len(call.keys) : call.outs[i].state # "fulfilled"

\* C10 amended: a deleteAll that succeeded has removed every key it
\* enumerated, each by its own member delete; a deleteAll that failed may have
\* removed some of them, and every member delete that succeeds, before or after
\* the failure, removes its key.
C10_DeleteAllRemovesPerMember ==
    /\ []((res.op = "deleteAll" /\ res.out.state = "fulfilled") =>
            /\ call.pending = {}
            /\ \A i \in 1..Len(call.keys) : call.outs[i].state = "fulfilled")
    /\ [][\A i \in 1..Cardinality(Keys) :
            (/\ call.op = "deleteAll" /\ i \in call.pending
             /\ DeleteAllMember(i)
             /\ call'.outs[i].state = "fulfilled")
                => (store[call.keys[i]].type # "none" /\ store'[call.keys[i]].type = "none")]_vars

\* C10 witness: a deleteAll that failed after one of its member deletes had
\* removed a key.
C10_Witness ==
    /\ res.op = "deleteAll"
    /\ res.out.state = "rejected"
    /\ call.op = "deleteAll"
    /\ \E i \in 1..Len(call.keys) : call.outs[i].state = "fulfilled"

NotFound(out) ==
    /\ out.state = "rejected"
    /\ out.name = "HttpError"
    /\ out.statusCode = 404

\* C11: a hash key whose fields were all removed with hashDelete reads like a
\* key that was never written, and each read of such a key (hashGet, hashGetAll,
\* getTimeToLive) fails NotFound with status 404: hashGetAll does not return an
\* empty mapping.
C11_NoHashReadsNotFound ==
    [][\A k \in HashKeys, f \in Fields, parse \in BOOLEAN :
          (/\ res'.op \in {"hashGet", "hashGetAll", "getTimeToLive"}
           /\ connected
           /\ store[k].type = "none"
           /\ \/ HashGet(k, f, parse)
              \/ \E dev \in BOOLEAN, asNull \in BOOLEAN : HashGetAll(k, parse, dev, asNull)
              \/ \E late \in BOOLEAN : GetTimeToLive(k, late))
              => NotFound(res'.out)]_vars

\* C12: when the enumeration of a composite yields no key, the composite fails
\* with NotFound (404), starts no per-key operation and leaves the store as it
\* was: getByPrefix with 'Index not found', deleteAll and getAll with
\* 'No keys found'.
C12_EmptyEnumerationIsNotFound ==
    [][\A p \in Prefixes \cup Patterns :
          (/\ res'.op \in Composites
           /\ connected
           /\ Quiet
           /\ \/ p \in Prefixes /\ Matching(store, p \o ":*") = {} /\ GetByPrefix(p, <<>>)
              \/ p \in Patterns /\ Matching(store, p) = {} /\ DeleteAll(p, <<>>)
              \/ p = "*" /\ Matching(store, p) = {} /\ GetAll(<<>>))
              => (/\ res'.out = HttpError(IF res'.op = "getByPrefix"
                                          THEN "Index not found"
                                          ELSE "No keys found", 404)
                  /\ call'.op = "idle"
                  /\ call'.pending = {}
                  /\ store' = store)]_vars

\* A composite found nothing to enumerate although the store holds keys.
C12_Witness ==
    /\ res.op \in {"getByPrefix", "deleteAll"}
    /\ NotFound(res.out)
    /\ res.out.message \in {"Index not found", "No keys found"}
    /\ call.op = "idle"
    /\ \E k \in Keys : store[k].type # "none"

\* C13: lists are stacks.  A pop right after a push returns the pushed value and
\* leaves the list as it was before the push; each successful listPop returns
\* and removes the element at the tail, the most recently pushed one not yet
\* popped; listPop on a key with no element left (or never pushed to) fails
\* with 'List is empty', 404, and changes nothing.
C13_ListIsLifo ==
    [][\A k \in ListKeys :
          /\ \A value \in LongValues :
                (/\ res'.op = "listPush"
                 /\ connected
                 /\ ListPushMany(k, value))
                    => (/\ listPop(store'[k], TRUE, FALSE).out = Resolved(value)
                        /\ listPop(store'[k], TRUE, FALSE).entry = store[k])
          /\ \A parse \in BOOLEAN :
                (/\ res'.op = "listPop"
                 /\ connected
                 /\ ListPop(k, parse))
                    => LET l == store[k].list
                       IN  IF l = <<>>
                           THEN /\ res'.out = HttpError("List is empty", 404)
                                /\ store' = store
                           ELSE /\ res'.out = Decode(JsString(l[Len(l)]), parse)
                                /\ res'.out.state = "fulfilled"
                                /\ store'[k].list = SubSeq(l, 1, Len(l) - 1)]_vars

\* first and second were pushed, in that order; the pop returned second and
\* first is what remains.
C13_Witness ==
    /\ res.op = "listPop"
    /\ res.out = Resolved(JsString(Utf16("second")))
    /\ \E k \in ListKeys : store[k].list = <<JSONstringify(JsString(Utf16("first"))).v>>

\* The elements of l at the zero-based positions start..end, both included,
\* end = -1 standing for the last position.
Slice(l, start, end) ==
    LET last == IF end = -1 THEN Len(l) - 1 ELSE end
        idx == SelectSeq([i \in 1..Len(l) |-> i - 1], LAMBDA p : start <= p /\ p <= last)
    IN  [j \in 1..Len(idx) |-> l[idx[j] + 1]]

\* C14: listGet(key, start, end) returns, decoded and in push order, the
\* elements from index start to index end, both ends included, end = -1 being
\* the last element (for a range that holds at least one element), and leaves
\* the list as it is: after first, second, third, listGet(k, 1, 2) is
\* [second, third] and listGet(k, 0, -1) is all three.
C14_ListGetIsInclusive ==
    [][\A k \in ListKeys, r \in Ranges, parse \in BOOLEAN :
          (/\ res'.op = "listGet"
           /\ connected
           /\ Slice(store[k].list, r[1], r[2]) # <<>>
           /\ ListGet(k, r[1], r[2], parse))
              => LET s == Slice(store[k].list, r[1], r[2])
                 IN  /\ res'.out = Resolved(JsArray([j \in 1..Len(s) |->
                                                        Decode(JsString(s[j]), parse).val]))
                     /\ \A j \in 1..Len(s) : Decode(JsString(s[j]), parse).state = "fulfilled"
                     /\ store' = store]_vars

\* first, second, third were pushed and listGet returned [second, third].
C14_Witness ==
    /\ res.op = "listGet"
    /\ res.out = Resolved(JsArray(<<JsString(Utf16("second")), JsString(Utf16("third"))>>))
    /\ \E k \in ListKeys :
          store[k].list = <<JSONstringify(JsString(Utf16("first"))).v,
                            JSONstringify(JsString(Utf16("second"))).v,
                            JSONstringify(JsString(Utf16("third"))).v>>

\* C15: listRemove(key, value) takes every occurrence of the encoded value out
\* of the list and keeps the other elements in their order; when the list holds
\* no occurrence it fails with 'Value not found in list', 404, and the list is
\* unchanged.
C15_ListRemoveTakesEveryOccurrence ==
    [][\A k \in ListKeys, value \in LongValues :
          (/\ res'.op = "listRemove"
           /\ connected
           /\ ListRemove(k, value))
              => LET l == store[k].list
                     text == JSONstringify(value).v
                 IN  IF \A i \in 1..Len(l) : l[i] # text
                     THEN /\ res'.out = HttpError("Value not found in list", 404)
                          /\ store' = store
                     ELSE /\ res'.out = Resolved(Undefined)
                          /\ store'[k].list = SelectSeq(l, LAMBDA x : x # text)]_vars

\* A listRemove succeeded and left the rest of the list behind.
C15_Witness ==
    /\ res.op = "listRemove"
    /\ res.out = Resolved(Undefined)
    /\ \E k \in ListKeys : Len(store[k].list) > 0

\* C16: hashDelete(key, field) on a field the hash holds removes that field and
\* no other: every other field is read back with the value it had, and other
\* keys are untouched; on a field the hash does not hold it fails with
\* 'Field not found', 404, and the hash is unchanged.
C16_HashDeleteRemovesOneField ==
    [][\A k \in HashKeys, f \in Fields :
          (/\ res'.op = "hashDelete"
           /\ connected
           /\ store[k].type \in {"none", "hash"}
           /\ HashDelete(k, f))
              => IF ~HasField(store[k].hash, f)
                 THEN /\ res'.out = HttpError("Field not found", 404)
                      /\ store' = store
                 ELSE /\ res'.out = Resolved(Undefined)
                      /\ hashGet(store'[k], f, FALSE, FALSE).out
                            = HttpError("Field not found", 404)
                      /\ \A g \in Fields \ {f} :
                            hashGet(store'[k], g, FALSE, FALSE).out
                               = hashGet(store[k], g, FALSE, FALSE).out
                      /\ \A j \in Keys \ {k} : store'[j] = store[j]]_vars

\* A field was deleted and another field of the same hash is still there.
C16_Witness ==
    /\ res.op = "hashDelete"
    /\ res.out = Resolved(Undefined)
    /\ \E f, g \in Fields :
          /\ ~HasField(store[res.key].hash, f)
          /\ HasField(store[res.key].hash, g)

\* C17: in every state, set(key, v, ttl) with a positive ttl writes the value
\* and its expiration in one step; each second that passes brings the expiration one
\* second nearer and at its end the key is gone, so that get fails with
\* 'Key not found', 404; set with ttl omitted, zero or null leaves the key
\* without expiration, and the passage of time never removes such a key.  A
\* value JSON.stringify gives no text for is not written at all: set fails
\* with 'Error saving to Redis', 500, and the key is as it was.
C17_SetAttachesExpiration ==
    /\ [](\A k \in Keys, value \in SetValues, ttl \in 0..MaxTtl :
            LET text == JSONstringify(value)
                w == set(store[k], value, ttl, FALSE)
            IN  IF text.t = "string"
                THEN /\ w.out = Resolved(Undefined)
                     /\ w.entry = StringEntry(text.v, IF ttl > 0 THEN ttl ELSE -1)
                ELSE /\ w.out = HttpError("Error saving to Redis", 500)
                     /\ w.entry = store[k])
    /\ [][(res' = res /\ store' # store /\ Tick)
             => \A k \in Keys, parse \in BOOLEAN :
                   /\ store[k].ttl = -1 => store'[k] = store[k]
                   /\ store[k].ttl = 1 => get(store'[k], parse, FALSE).out = KeyNotFound
                   /\ store[k].ttl > 1 => store'[k] = [store[k] EXCEPT !.ttl = @ - 1]]_vars

\* A set with a positive ttl went through: the key holds the value and the
\* expiration that came with it.
C17_Witness ==
    /\ res.op = "set"
    /\ res.out = Resolved(Undefined)
    /\ store[res.key].type = "string"
    /\ store[res.key].ttl = MaxTtl

\* C18 as it was stated: in every state, getTimeToLive(key) fails with 'Key
\* not found', 404, when the key is absent, returns -1 for a key without
\* expiration, and for a key with an expiration a value greater than 0 and not
\* greater than the seconds the key has left, which are never more than the ttl
\* last attached.  It differs from C18_TimeToLiveIsRaw by the least value only.
C18_TimeToLiveIsPositive ==
    \A k \in Keys, late \in BOOLEAN :
        getTimeToLive(store[k], late, FALSE).out \in
            IF store[k].type = "none" THEN {KeyNotFound}
            ELSE IF store[k].ttl = -1 THEN {Resolved(JsInteger(-1))}
            ELSE {Resolved(JsInteger(t)) : t \in 1..store[k].ttl}

\* C18: in every state, getTimeToLive(key) fails with 'Key not found', 404,
\* exactly when the store replies -2, which it does exactly when the key is
\* absent; otherwise it returns the store's reply as it is: -1 for a key
\* without expiration, else the time left rounded to the nearest second, which
\* is at least 0 (0 in the last half second of the key) and never more than the
\* ttl last attached by set or refreshKey: an attachment sets the seconds left
\* to its ttl, whatever was left before, and no other step raises them.
C18_TimeToLiveIsRaw ==
    /\ [](\A k \in Keys :
            /\ \A late \in BOOLEAN :
                  LET reply == clientTtl(store[k], late, FALSE).reply
                  IN  /\ getTimeToLive(store[k], late, FALSE).out =
                            IF reply = -2 THEN KeyNotFound ELSE Resolved(JsInteger(reply))
                      /\ reply = -2 <=> store[k].type = "none"
                      /\ reply = -1 <=> (store[k].type # "none" /\ store[k].ttl = -1)
                      /\ store[k].ttl > 0 => reply \in 0..store[k].ttl
            /\ store[k].ttl \in {-2, -1} \cup 1..MaxTtl
            /\ \A ttl \in 1..MaxTtl :
                  /\ \A value \in SetValues :
                        JSONstringify(value).t = "string"
                           => set(store[k], value, ttl, FALSE).entry.ttl = ttl
                  /\ \A asBoolean \in BOOLEAN :
                        store[k].type # "none"
                           => refreshKey(store[k], ttl, asBoolean, FALSE).entry.ttl = ttl)
    /\ [][\A k \in Keys :
            (/\ store'[k].ttl > 0
             /\ ~(store[k].ttl > 0 /\ store'[k].ttl <= store[k].ttl))
                => \E ttl \in 1..MaxTtl :
                      /\ ttl = store'[k].ttl
                      /\ k \in TtlKeys
                      /\ \/ \E value \in SetValues : Set(k, value, ttl)
                         \/ \E asBoolean \in BOOLEAN : RefreshKey(k, ttl, asBoolean)]_vars

\* getTimeToLive returned 0 for a key that is in its last second.
C18_Witness ==
    /\ res.op = "getTimeToLive"
    /\ res.out = Resolved(JsInteger(0))
    /\ store[res.key].type = "string"
    /\ store[res.key].ttl = 1

\* What getAll reads for a key of each type it knows, decoded.
ReadByType(e) ==
    CASE e.type = "string" -> get(e, TRUE, FALSE).out.val
      [] e.type = "list" -> listGet(e, 0, -1, TRUE, FALSE).out.val
      [] e.type = "hash" -> hashGetAll(e, TRUE, FALSE, FALSE, FALSE).out.val

\* C19: a getAll that succeeds (with no other client writing meanwhile) has
\* enumerated every key of the store once and returns, in the order of the
\* enumeration, exactly one record for each enumerated key that holds a string,
\* a list or a hash, its value being the decoded result of get, listGet(0, -1)
\* or hashGetAll; a key of another type has no record and fails nothing.
C19_GetAllReadsByType ==
    (/\ res.op = "getAll"
     /\ res.out.state = "fulfilled"
     /\ ~call.dirty)
        => LET want == SelectSeq(call.keys,
                                 LAMBDA k : store[k].type \in {"string", "list", "hash"})
               recs == res.out.val.v
           IN  /\ call.op = "getAll"
               /\ {call.keys[i] : i \in 1..Len(call.keys)} = Matching(store, "*")
               /\ Len(call.keys) = Cardinality(Matching(store, "*"))
               /\ Len(recs) = Len(want)
               /\ \A j \in 1..Len(want) :
                     /\ recs[j].key = want[j]
                     /\ recs[j].val = ReadByType(store[want[j]])

\* getAll succeeded over two keys, one of them of a type it has no read for:
\* one record came back.
C19_Witness ==
    /\ res.op = "getAll"
    /\ res.out.state = "fulfilled"
    /\ ~call.dirty
    /\ Len(call.keys) = 2
    /\ Len(res.out.val.v) = 1
    /\ \E k \in Keys : store[k].type = "set"

\* Member i of a deleteAll in flight reaches the store and finds its key gone.
DeletesVanishedKey(i) ==
    /\ call.op = "deleteAll"
    /\ i \in call.pending
    /\ connected
    /\ store[call.keys[i]].type = "none"

\* C20 as stated: when a key that deleteAll enumerated is removed by another
\* client, or expires, before its member delete runs, the deleteAll call fails
\* with that member's record 'Key not found', 404.
C20_RaceReportsKeyNotFound ==
    [][\A i \in 1..Cardinality(Keys) :
          (/\ res'.op = "deleteAll"
           /\ DeletesVanishedKey(i)
           /\ DeleteAllMember(i))
              => res'.out = KeyNotFound]_vars

\* C20: when a key that deleteAll enumerated is removed by another client, or
\* expires, before its member delete runs, that member fails with 'Key not
\* found', 404, and the deleteAll call fails instead of succeeding: with that
\* record when no member failed before, and otherwise with the record of the
\* member that failed first, which it had reported already.
C20_RaceFailsDeleteAll ==
    [][\A i \in 1..Cardinality(Keys) :
          (/\ res'.op = "deleteAll"
           /\ DeletesVanishedKey(i)
           /\ DeleteAllMember(i))
              => (/\ call'.outs[i] = KeyNotFound
                  /\ res'.out.state = "rejected"
                  /\ res'.out = call'.outs[call'.first]
                  /\ IF call.settled
                     THEN res' = res /\ call'.first = call.first
                     ELSE res'.out = KeyNotFound /\ call'.first = i)]_vars

\* deleteAll failed with 'Key not found' for a key it had enumerated.
C20_Witness ==
    /\ res.op = "deleteAll"
    /\ call.op = "deleteAll"
    /\ call.first # 0
    /\ call.outs[call.first] = KeyNotFound
    /\ res.out = KeyNotFound

\* The record get gives for a key that holds no string: the store call is
\* rejected (WRONGTYPE) and the catch clause of get wraps it.
GetFailed == HttpError("Error fetching from Redis", 500)

====
